---- MODULE Spec2Model ----
(***************************************************************************)
(* A model of the slot finder of the WellnessReset app                     *)
(* (src/src/services/CalendarService.ts): findFreeSlots, hasConflict and   *)
(* their helpers, as pure operators, and a state machine that applies them *)
(* to inputs drawn from bounded sets.                                      *)
(*                                                                         *)
(* Time.  A JavaScript Date is a number of milliseconds; here an instant   *)
(* is an integer number of ticks, TicksPerMinute ticks to the minute,      *)
(* counted from local midnight of the day the call is made (day 0), so     *)
(* instants before today are negative.  Every day has 24 hours (no         *)
(* daylight-saving change inside the scanned range).  The startDate and    *)
(* endDate strings of a BusyEvent are modelled by the instants that        *)
(* `new Date(string)` yields for them.                                     *)
(***************************************************************************)
EXTENDS Integers, Sequences, FiniteSets

VARIABLES
    busy,       \* busyEvents argument of the calls: a sequence of events
    config,     \* FreeSlotConfig argument of findFreeSlots
    now,        \* the clock value `new Date()` that findFreeSlots reads
    slots,      \* the list returned by the latest findFreeSlots call
    scanLog,    \* history of the latest call: the gaps and day cursors it used
    prevSlots,  \* the list returned by the findFreeSlots call before that
    prevBusy,   \* the busy list of the call before that
    probe,      \* the (start, end) range of the latest hasConflict call
    conflict,   \* the value returned by the latest hasConflict call
    op,         \* which call was made last: "idle", "found", "again", "checked"
    run,        \* a findFreeSlots call in progress, statement by statement
    calendar,   \* the device calendar: the set of stored events
    wallClock,  \* the clock of the device while the app runs
    permission, \* the calendar permission: "authorized", "denied", "undetermined"
    screen,     \* the React state of HomeScreen
    syncs,      \* the syncCalendar runs, in the order they were started
    adds,       \* the addWellnessEvent calls of handleAddSlot, in order
    removals,   \* the handleRemoveBusy calls that got past the guard, in order
    last        \* the latest step of the app

finderVars == <<busy, config, now, slots, scanLog, prevSlots, prevBusy, probe, conflict, op>>

appVars == <<calendar, wallClock, permission, screen, syncs, adds, removals, last>>

vars == <<busy, config, now, slots, scanLog, prevSlots, prevBusy, probe, conflict, op, run, appVars>>

-----------------------------------------------------------------------------
(* Bounds of the model and constants of the program *)

TicksPerMinute == 2
MaxEvents == 2
MaxDays == 2

MinutesPerHour == 60
HoursPerDay == 24
SlotCapLimit == 10

TicksPerHour == MinutesPerHour * TicksPerMinute
TicksPerDay == HoursPerDay * TicksPerHour

\* The instant h:m plus t ticks on day d.
At(d, h, m, t) == d * TicksPerDay + h * TicksPerHour + m * TicksPerMinute + t

Max(a, b) == IF a >= b THEN a ELSE b
Min(a, b) == IF a <= b THEN a ELSE b

-----------------------------------------------------------------------------
(* Date utility functions *)

\* startOfDay: midnight of the local day that holds the instant.
startOfDay(date) == (date \div TicksPerDay) * TicksPerDay

\* addDays: the same time of day, `days` days later.
addDays(date, days) == date + days * TicksPerDay

\* setHour: hour:00:00.000 of the day that holds the instant.
setHour(date, hour) == startOfDay(date) + hour * TicksPerHour

\* Math.round of ticks / TicksPerMinute: to the nearest minute, halves up.
RoundToMinutes(ticks) == (2 * ticks + TicksPerMinute) \div (2 * TicksPerMinute)

\* diffMinutes: Math.max(0, Math.round((end - start) / 60000)).
diffMinutes(start, end) == Max(0, RoundToMinutes(end - start))

\* isSameDay: same local year, month and date.
isSameDay(value, reference) == startOfDay(value) = startOfDay(reference)

\* Mutant of rangesOverlap: closed intervals, so touching ranges overlap.
rangesOverlapClosed(startA, endA, startB, endB) == startA <= endB /\ startB <= endA

\* rangesOverlap: startA < endB && startB < endA.
rangesOverlap(startA, endA, startB, endB) == startA < endB /\ startB < endA

-----------------------------------------------------------------------------
(* findFreeSlots and its helpers *)

\* Mutant of chooseDuration: a gap between min and max is offered whole.
chooseDurationWholeGap(gapMinutes, cfg) ==
    IF gapMinutes < cfg.minMinutes THEN 0
    ELSE IF gapMinutes >= cfg.maxMinutes THEN cfg.maxMinutes
    ELSE gapMinutes

\* Mutant of chooseDuration: the two duration tests in the other order.
chooseDurationShortFirst(gapMinutes, cfg) ==
    IF gapMinutes < cfg.minMinutes THEN 0
    ELSE IF gapMinutes >= cfg.minMinutes THEN cfg.minMinutes
    ELSE cfg.maxMinutes

\* chooseDuration: null (modelled as 0, which `!slotDuration` treats alike)
\* when the gap is too small, else the max or the min duration.
chooseDuration(gapMinutes, cfg) ==
    IF gapMinutes < cfg.minMinutes THEN 0
    ELSE IF gapMinutes >= cfg.maxMinutes THEN cfg.maxMinutes
    ELSE cfg.minMinutes

\* buildSlot: the id `${anchor.getTime()}-${durationMinutes}` is modelled by
\* the pair of the two numbers the string is made of.
buildSlot(anchor, durationMinutes) ==
    [id |-> <<anchor, durationMinutes>>,
     startDate |-> anchor,
     endDate |-> anchor + durationMinutes * TicksPerMinute,
     durationMinutes |-> durationMinutes,
     status |-> "available"]

\* Mutant of pushSlot: the pushed slot's id is made from its position in the
\* list instead of its start.
pushSlotNumbered(list, slot, clock) ==
    IF slot.startDate >= clock
    THEN Append(list, [slot EXCEPT !.id = <<Len(list) + 1, slot.durationMinutes>>])
    ELSE list

\* `if (slot.startDate >= now) slots.push(slot)`
pushSlot(list, slot, clock) ==
    IF slot.startDate >= clock THEN Append(list, slot) ELSE list

\* Mutant of underCap: `slots.length <= 10`.
underCapInclusive(list) == Len(list) <= SlotCapLimit

\* The loop guard's second half: `slots.length < 10`.
underCap(list) == Len(list) < SlotCapLimit

\* Mutant of carveGap: the loop runs while `remaining > config.minMinutes`.
RECURSIVE carveGapStrict(_, _, _, _, _)
carveGapStrict(list, gapStart, gapEnd, cfg, clock) ==
    LET remaining == diffMinutes(gapStart, gapEnd)
        slotDuration == chooseDuration(remaining, cfg)
    IN  IF remaining > cfg.minMinutes /\ underCap(list) /\ slotDuration # 0
        THEN carveGapStrict(pushSlot(list, buildSlot(gapStart, slotDuration), clock),
                            gapStart + slotDuration * TicksPerMinute, gapEnd, cfg, clock)
        ELSE list

\* The carving loop (the same loop is written twice in findFreeSlots, for the
\* gap before an event and for the gap before the window end).
RECURSIVE carveGap(_, _, _, _, _)
carveGap(list, gapStart, gapEnd, cfg, clock) ==
    LET remaining == diffMinutes(gapStart, gapEnd)
        slotDuration == chooseDuration(remaining, cfg)
    IN  IF remaining >= cfg.minMinutes /\ underCap(list) /\ slotDuration # 0
        THEN carveGap(pushSlot(list, buildSlot(gapStart, slotDuration), clock),
                      gapStart + slotDuration * TicksPerMinute, gapEnd, cfg, clock)
        ELSE list

\* One gap of the scan: the slots carved from it, and (history only) a record
\* of the gap: its day offset, its bounds and the positions lo+1..hi of the
\* slots carved from it in the list.
scanGap(acc, dayOffset, cursor, gapEnd, cfg, clock) ==
    LET out == carveGap(acc.slots, cursor, gapEnd, cfg, clock)
    IN  [acc EXCEPT !.slots = out,
                    !.gaps = Append(@, [day |-> dayOffset, from |-> cursor, to |-> gapEnd,
                                        lo |-> Len(acc.slots), hi |-> Len(out)])]

\* The body of `todaysEvents.forEach`, applied to events i..Len(events) in
\* list order; st holds the accumulated result and the day's cursor.
RECURSIVE scanEvents(_, _, _, _, _, _)
scanEvents(st, events, i, dayOffset, cfg, clock) ==
    IF i > Len(events) THEN st
    ELSE LET eventStart == events[i].startDate
             eventEnd == events[i].endDate
             acc1 == IF eventStart > st.cursor
                     THEN scanGap(st.acc, dayOffset, st.cursor, eventStart, cfg, clock)
                     ELSE st.acc
             cursor1 == IF eventEnd > st.cursor THEN eventEnd ELSE st.cursor
         IN  scanEvents([acc |-> acc1, cursor |-> cursor1], events, i + 1, dayOffset, cfg, clock)

\* Mutant of initialCursor: day 0 is not clamped to the clock.
initialCursorUnclamped(dayOffset, windowStart, clock) == windowStart

\* The cursor a day's scan starts from:
\* `dayOffset === 0 ? new Date(Math.max(now, windowStart)) : windowStart`.
initialCursor(dayOffset, windowStart, clock) ==
    IF dayOffset = 0 THEN Max(clock, windowStart) ELSE windowStart

\* The body of the loop over days, for one day offset.
scanDay(acc, dayOffset, busyEvents, cfg, clock) ==
    LET dayStart == startOfDay(addDays(clock, dayOffset))
        windowStart == setHour(dayStart, cfg.dayStartHour)
        windowEnd == setHour(dayStart, cfg.dayEndHour)
        cursor == initialCursor(dayOffset, windowStart, clock)
        OnDay(event) == isSameDay(event.startDate, dayStart)
        todaysEvents == SelectSeq(busyEvents, OnDay)
        acc0 == [acc EXCEPT !.days = Append(@, [day |-> dayOffset, cursor |-> cursor])]
        st == scanEvents([acc |-> acc0, cursor |-> cursor], todaysEvents, 1,
                         dayOffset, cfg, clock)
    IN  IF windowEnd > st.cursor
        THEN scanGap(st.acc, dayOffset, st.cursor, windowEnd, cfg, clock)
        ELSE st.acc

\* `for (let dayOffset = 0; dayOffset < config.days; dayOffset += 1)`
RECURSIVE scanDays(_, _, _, _, _)
scanDays(acc, dayOffset, busyEvents, cfg, clock) ==
    IF dayOffset < cfg.days
    THEN scanDays(scanDay(acc, dayOffset, busyEvents, cfg, clock),
                  dayOffset + 1, busyEvents, cfg, clock)
    ELSE acc

EmptyLog == [gaps |-> <<>>, days |-> <<>>]

\* The whole scan: the list `slots` before the final slice, with its history.
scanAll(busyEvents, cfg, clock) ==
    scanDays([slots |-> <<>>, gaps |-> <<>>, days |-> <<>>], 0, busyEvents, cfg, clock)

\* findFreeSlots with the history of the call: `return slots.slice(0, 10)`.
findFreeSlotsCall(busyEvents, cfg, clock) ==
    LET all == scanAll(busyEvents, cfg, clock)
    IN  [slots |-> SubSeq(all.slots, 1, Min(SlotCapLimit, Len(all.slots))),
         log |-> [gaps |-> all.gaps, days |-> all.days]]

\* findFreeSlots: the list it returns.
findFreeSlots(busyEvents, cfg, clock) == findFreeSlotsCall(busyEvents, cfg, clock).slots

\* hasConflict: `busyEvents.some(event => rangesOverlap(start, end, ...))`.
hasConflict(busyEvents, start, end) ==
    \E i \in 1..Len(busyEvents) :
        rangesOverlap(start, end, busyEvents[i].startDate, busyEvents[i].endDate)

-----------------------------------------------------------------------------
(* findFreeSlots statement by statement: the loops of the call, one
   iteration per step *)

\* No call in progress.
NoRun == [pc |-> "none", dayOffset |-> 0, index |-> 0, cursor |-> 0,
          gapStart |-> 0, gapEnd |-> 0, after |-> "none", slots |-> <<>>]

\* Mutant of nextGapStart: gapStart is not advanced.
nextGapStartStuck(gapStart, slotDuration) == gapStart

\* `gapStart = new Date(gapStart.getTime() + slotDuration * 60000)`
nextGapStart(gapStart, slotDuration) == gapStart + slotDuration * TicksPerMinute

\* `busyEvents.filter(event => isSameDay(new Date(event.startDate), dayStart))`
todaysEventsOf(busyEvents, dayOffset, clock) ==
    LET dayStart == startOfDay(addDays(clock, dayOffset))
        OnDay(event) == isSameDay(event.startDate, dayStart)
    IN  SelectSeq(busyEvents, OnDay)

\* The head of the loop over days: enter the next day, or leave the loop.
stepDay(r, cfg, clock) ==
    IF r.dayOffset < cfg.days
    THEN LET dayStart == startOfDay(addDays(clock, r.dayOffset))
             windowStart == setHour(dayStart, cfg.dayStartHour)
         IN  [r EXCEPT !.pc = "event", !.index = 1,
                       !.cursor = initialCursor(r.dayOffset, windowStart, clock)]
    ELSE [r EXCEPT !.pc = "return"]

\* One call of the forEach callback up to its carving loop, or the end of
\* the forEach.
stepEvent(r, busyEvents, clock) ==
    LET events == todaysEventsOf(busyEvents, r.dayOffset, clock) IN
    IF r.index > Len(events) THEN [r EXCEPT !.pc = "tail"]
    ELSE IF events[r.index].startDate > r.cursor
         THEN [r EXCEPT !.pc = "carve", !.after = "event",
                        !.gapStart = r.cursor, !.gapEnd = events[r.index].startDate]
         ELSE [r EXCEPT !.pc = "moved"]

\* `if (eventEnd > cursor) cursor = eventEnd`, and on to the next event.
stepCursor(r, busyEvents, clock) ==
    LET events == todaysEventsOf(busyEvents, r.dayOffset, clock)
        eventEnd == events[r.index].endDate
    IN  [r EXCEPT !.pc = "event", !.index = r.index + 1,
                  !.cursor = IF eventEnd > r.cursor THEN eventEnd ELSE r.cursor]

\* The test of a carving loop: `remaining >= config.minMinutes &&
\* slots.length < 10`, and no `break`.
carveGoesOn(r, cfg) ==
    LET remaining == diffMinutes(r.gapStart, r.gapEnd) IN
    remaining >= cfg.minMinutes /\ underCap(r.slots) /\ chooseDuration(remaining, cfg) # 0

\* One iteration of a carving loop.
stepCarve(r, cfg, clock) ==
    LET slotDuration == chooseDuration(diffMinutes(r.gapStart, r.gapEnd), cfg) IN
    [r EXCEPT !.slots = pushSlot(r.slots, buildSlot(r.gapStart, slotDuration), clock),
              !.gapStart = nextGapStart(r.gapStart, slotDuration)]

\* The end of a carving loop: back to the forEach callback, or on to the
\* next day.
stepLeaveGap(r) ==
    IF r.after = "event" THEN [r EXCEPT !.pc = "moved"]
    ELSE [r EXCEPT !.pc = "day", !.dayOffset = r.dayOffset + 1]

\* `if (windowEnd > cursor)`: the gap before the window end, or the next day.
stepTail(r, cfg, clock) ==
    LET windowEnd == setHour(startOfDay(addDays(clock, r.dayOffset)), cfg.dayEndHour) IN
    IF windowEnd > r.cursor
    THEN [r EXCEPT !.pc = "carve", !.after = "day", !.gapStart = r.cursor, !.gapEnd = windowEnd]
    ELSE [r EXCEPT !.pc = "day", !.dayOffset = r.dayOffset + 1]

\* `return slots.slice(0, 10)`
stepReturn(r) ==
    [r EXCEPT !.pc = "done", !.slots = SubSeq(r.slots, 1, Min(SlotCapLimit, Len(r.slots)))]

-----------------------------------------------------------------------------
(* The inputs of the calls *)

Event(start, end) == [startDate |-> start, endDate |-> end]

\* Well-formed events (start < end): inside the window, with an end off the
\* minute grid, past the end of the short window, begun yesterday and still
\* running, running over midnight, and on the next day.
Events ==
    { Event(At(0, 8, 0, 0), At(0, 8, 20, 0)),
      Event(At(0, 7, 30, 0), At(0, 7, 45, 1)),
      Event(At(0, 9, 30, 0), At(0, 10, 0, 0)),
      Event(At(-1, 23, 0, 0), At(0, 7, 40, 0)),
      Event(At(0, 23, 30, 0), At(1, 7, 30, 0)),
      Event(At(1, 7, 0, 0), At(1, 8, 0, 0)) }

RECURSIVE SeqsUpTo(_, _)
SeqsUpTo(S, n) ==
    IF n = 0 THEN {<<>>}
    ELSE LET shorter == SeqsUpTo(S, n - 1)
         IN  shorter \cup {Append(q, x) : q \in shorter, x \in S}

\* Busy lists, in any order (findFreeSlots does not sort its argument).
BusyLists == SeqsUpTo(Events, MaxEvents)

\* Well-formed configs: days >= 1, 1 <= minMinutes <= maxMinutes,
\* dayStartHour < dayEndHour.  <<15, 30>> with 7..22 is what HomeScreen
\* passes (constants/app.ts).
Configs ==
    { [days |-> d, minMinutes |-> mm[1], maxMinutes |-> mm[2],
       dayStartHour |-> w[1], dayEndHour |-> w[2]] :
        d \in 1..MaxDays, mm \in {<<15, 30>>, <<15, 15>>}, w \in {<<7, 22>>, <<7, 9>>} }

\* Clock values: before the window, at its start, inside it off the minute
\* grid, and after the end of the short window.
Clocks == { At(0, 6, 0, 0), At(0, 7, 0, 0), At(0, 8, 15, 1), At(0, 9, 10, 0) }

\* Range ends for hasConflict, at and around the ends of the 08:00 event.
ProbeTimes == { At(0, 7, 30, 0), At(0, 8, 0, 0), At(0, 8, 20, 0), At(0, 8, 30, 0) }

-----------------------------------------------------------------------------
(* The device calendar and the CalendarService calls that read and write it.
   A calendar is a set of stored events; the notes of an event are a sequence
   of lines, a line being a prefix and a body: a line of plain text has the
   empty prefix, the metadata line has the prefix META_PREFIX and the JSON
   text of the metadata as its body.  A JSON text of an object is modelled by
   the function from the keys it spells out to their values. *)

EVENT_TITLE == "Wellness reset"
EVENT_NOTES == "Scheduled via Wellness app. Adjust or move as needed for your day."
META_PREFIX == "WellnessMeta:"

\* `undefined` or `null`: of a string-valued field, and of a slot id.
Undefined == "undefined"
NoId == <<>>

\* Values of `alarms`: the default of addWellnessEvent, and an array a caller
\* passes.  Absent: the options have no such key.
FIVE_MINUTES == "[{date: -5}]"
OTHER_ALARMS == "[{date: -10}]"
Absent == "absent"

textLine(text) == [prefix |-> "", body |-> text]

\* JSON.stringify({exercise, exerciseMood, slotId, userMood}): a key whose
\* value is undefined is left out of the text.
jsonStringify(obj) ==
    LET kept == {k \in {"exercise", "exerciseMood", "userMood"} : obj[k] # Undefined}
                \cup (IF obj.slotId # NoId THEN {"slotId"} ELSE {})
    IN  [k \in kept |-> obj[k]]

\* JSON.parse of such a text, read through `meta?.key`: a key the text does
\* not spell out reads as undefined.
jsonParse(text) ==
    [found |-> TRUE,
     exercise |-> IF "exercise" \in DOMAIN text THEN text["exercise"] ELSE Undefined,
     exerciseMood |-> IF "exerciseMood" \in DOMAIN text THEN text["exerciseMood"] ELSE Undefined,
     slotId |-> IF "slotId" \in DOMAIN text THEN text["slotId"] ELSE NoId,
     userMood |-> IF "userMood" \in DOMAIN text THEN text["userMood"] ELSE Undefined]

\* parseMeta returns null.
NoMeta == [found |-> FALSE, exercise |-> Undefined, exerciseMood |-> Undefined,
           slotId |-> NoId, userMood |-> Undefined]

\* parseMeta: the first line of the notes that starts with META_PREFIX, parsed.
parseMeta(notes) ==
    LET metaLines == SelectSeq(notes, LAMBDA line : line.prefix = META_PREFIX)
    IN  IF Len(metaLines) = 0 THEN NoMeta ELSE jsonParse(metaLines[1].body)

\* `event.notes.includes('Wellness app')`, for the texts of the model.
mentionsApp(notes) ==
    \E i \in 1..Len(notes) : notes[i].prefix = "" /\ notes[i].body = EVENT_NOTES

\* The BusyEvent that fetchBusyEvents maps a stored event to.
toBusyEvent(event) ==
    LET meta == parseMeta(event.notes)
    IN  [id |-> event.id,
         startDate |-> event.startDate,
         endDate |-> event.endDate,
         title |-> event.title,
         isAppCreated |-> event.title = EVENT_TITLE \/ mentionsApp(event.notes) \/ meta.found,
         slotId |-> meta.slotId,
         exercise |-> meta.exercise,
         exerciseMood |-> meta.exerciseMood,
         userMood |-> meta.userMood]

\* The range fetchBusyEvents(days) asks for when the clock reads `clock`.
fetchRange(days, clock) ==
    [from |-> startOfDay(clock), to |-> startOfDay(clock) + days * TicksPerDay]

\* RNCalendarEvents.fetchAllEvents: the stored events that fall in the range.
fetchAllEvents(stored, range) ==
    {event \in stored : event.startDate < range.to /\ event.endDate > range.from}

\* The order the native module lists events in is not specified; the model
\* lists them by id.  The order of events with equal starts is all that is
\* left of it after the sort.
RECURSIVE inNativeOrder(_)
inNativeOrder(events) ==
    IF events = {} THEN <<>>
    ELSE LET first == CHOOSE e \in events : \A other \in events : e.id <= other.id
         IN  <<first>> \o inNativeOrder(events \ {first})

\* One step of the stable sort: `event` goes behind every event of the
\* sorted list that does not start later.
insertByStart(sorted, event) ==
    LET before == SelectSeq(sorted, LAMBDA e : e.startDate <= event.startDate)
        after == SelectSeq(sorted, LAMBDA e : e.startDate > event.startDate)
    IN  before \o <<event>> \o after

\* `.sort((a, b) => start(a) - start(b))`: a stable sort by start time.
RECURSIVE sortByStart(_)
sortByStart(events) ==
    IF Len(events) = 0 THEN <<>>
    ELSE insertByStart(sortByStart(SubSeq(events, 1, Len(events) - 1)), events[Len(events)])

\* What fetchBusyEvents resolves to, given the events the native call returned.
busyEventsOf(events) ==
    LET listed == inNativeOrder(events)
    IN  sortByStart([i \in 1..Len(listed) |-> toBusyEvent(listed[i])])

\* A string value is truthy: neither undefined nor the empty string.
truthy(value) == value # Undefined /\ value # ""

\* The `notes` of the options: not given (undefined), or a text, as its
\* lines; the empty text has no line.
NoNotes == [given |-> FALSE, lines |-> <<>>]
notesText(lines) == [given |-> TRUE, lines |-> lines]

\* The metadata line addWellnessEvent writes: none when all four values are falsy.
metaLines(options) ==
    IF truthy(options.exercise) \/ truthy(options.exerciseMood)
       \/ options.slotId # NoId \/ truthy(options.userMood)
    THEN <<[prefix |-> META_PREFIX, body |-> jsonStringify(options)]>>
    ELSE <<>>

\* `[notes ?? EVENT_NOTES, meta].filter(Boolean).join('\n')`: the notes of the
\* options, or the default text, and below them the metadata line; an empty
\* text and a missing metadata line are left out.
mergedNotes(options) ==
    (IF options.notes.given THEN options.notes.lines ELSE <<textLine(EVENT_NOTES)>>)
    \o metaLines(options)

\* The event a successful saveEvent(EVENT_TITLE, details) stores, under the id
\* the native module gives it.  toISOString keeps the milliseconds, so the
\* stored dates are the instants of the slot.
savedEvent(id, slot, options, alarms) ==
    [id |-> id,
     startDate |-> slot.startDate,
     endDate |-> slot.endDate,
     title |-> EVENT_TITLE,
     notes |-> mergedNotes(options),
     alarms |-> alarms]

-----------------------------------------------------------------------------
(* HomeScreen: the state of the screen and the synchronous part of its
   handlers *)

DAYS_TO_FETCH == 1
MIN_DURATION_MINUTES == 15
MAX_DURATION_MINUTES == 30
DAY_START_HOUR == 7
DAY_END_HOUR == 22
MIN_FUTURE_BUFFER_MINUTES == 15
MORNING_END == 12
AFTERNOON_END == 18
SlotsPerDaypart == 2

PERMISSIONS_DENIED == "Calendar access denied. Please enable permissions."
UNABLE_TO_SYNC == "Unable to sync calendar right now."
ADDED == "Added to your calendar"
ADD_FAILED == "Calendar add failed"
REMOVED_AND_REFRESHED == "Removed and refreshed"

\* The config syncCalendar passes to findFreeSlots.
HomeConfig ==
    [days |-> DAYS_TO_FETCH, minMinutes |-> MIN_DURATION_MINUTES,
     maxMinutes |-> MAX_DURATION_MINUTES, dayStartHour |-> DAY_START_HOUR,
     dayEndHour |-> DAY_END_HOUR]

\* `editingSlot` is null.
NoSlot == [id |-> NoId, startDate |-> 0, endDate |-> 0, durationMinutes |-> 0,
           status |-> "none"]

\* The state of the screen when it is constructed (the useState calls).
InitialScreen ==
    [mood |-> "Calm", busyEvents |-> <<>>, slots |-> <<>>, editingSlot |-> NoSlot,
     loading |-> TRUE, error |-> Undefined, pickerVisible |-> FALSE,
     conflictSlotId |-> NoId, banner |-> Undefined, bannerTone |-> "success"]

\* new Date(y, m, d, 0, 0, 0, 0) of the clock's day.
startOfToday(clock) == startOfDay(clock)

\* new Date(y, m, d, 23, 59, 59, 999) of the clock's day.  Instants are whole
\* ticks, so an instant is <= 23:59:59.999 exactly when it is <= the last
\* tick of the day, and Math.floor((endOfToday - t) / 60000) is the whole
\* minutes from t to that tick.
endOfToday(clock) == startOfDay(clock) + TicksPerDay - 1

\* Date.getHours().
getHours(date) == (date - startOfDay(date)) \div TicksPerHour

\* The filter of syncCalendar: slots that start at least the buffer after
\* `clock` and lie within today.
usableSlots(free, clock) ==
    LET minStart == clock + MIN_FUTURE_BUFFER_MINUTES * TicksPerMinute
    IN  SelectSeq(free, LAMBDA slot :
            /\ slot.startDate >= minStart
            /\ slot.startDate >= startOfToday(clock)
            /\ slot.endDate <= endOfToday(clock))

\* The id `${minStart.getTime()}-fallback`: its suffix is no duration; the
\* model writes it as -1.
fallbackId(minStart) == <<minStart, -1>>

\* The fallback of syncCalendar when the filter leaves nothing: one slot at
\* minStart, as long as the day still has MIN_DURATION_MINUTES left.
fallbackSlots(clock) ==
    LET minStart == clock + MIN_FUTURE_BUFFER_MINUTES * TicksPerMinute
        minutesLeft == (endOfToday(clock) - minStart) \div TicksPerMinute
        duration == Max(0, Min(MAX_DURATION_MINUTES, minutesLeft))
    IN  IF duration >= MIN_DURATION_MINUTES
        THEN <<[id |-> fallbackId(minStart), startDate |-> minStart,
                endDate |-> minStart + duration * TicksPerMinute,
                durationMinutes |-> duration, status |-> "available"]>>
        ELSE <<>>

\* The daypart bucket of a slot, by the hour it starts in.
daypartOf(slot) ==
    IF getHours(slot.startDate) < MORNING_END THEN "morning"
    ELSE IF getHours(slot.startDate) < AFTERNOON_END THEN "afternoon"
    ELSE "evening"

\* Mutant of takeFirst: the whole bucket is kept.
takeAll(list, count) == list

\* `list.slice(0, count)`.
takeFirst(list, count) == SubSeq(list, 1, Min(count, Len(list)))

bucket(list, daypart) == SelectSeq(list, LAMBDA slot : daypartOf(slot) = daypart)

\* `condensed`: the first SlotsPerDaypart slots of each bucket.
condense(list) ==
    takeFirst(bucket(list, "morning"), SlotsPerDaypart)
    \o takeFirst(bucket(list, "afternoon"), SlotsPerDaypart)
    \o takeFirst(bucket(list, "evening"), SlotsPerDaypart)

\* Mutant of suggestions: no filter on the slots found.
suggestionsUnfiltered(busyList, clock) ==
    LET found == findFreeSlots(sortByStart(busyList), HomeConfig, clock)
    IN  [found |-> found, slots |-> condense(found)]

\* The synchronous part of syncCalendar after the fetch: the slots found
\* (filtered, or the fallback) and the list handed to setSlots.
suggestions(busyList, clock) ==
    LET free == findFreeSlots(sortByStart(busyList), HomeConfig, clock)
        filtered == usableSlots(free, clock)
        found == IF Len(filtered) = 0 THEN fallbackSlots(clock) ELSE filtered
    IN  [found |-> found, slots |-> condense(found)]

\* addedEventIdsBySlot[id] is set: an app-created event of busyEvents carries the id.
isAdded(busyEvents, id) ==
    \E i \in 1..Len(busyEvents) :
        /\ busyEvents[i].isAppCreated
        /\ busyEvents[i].slotId # NoId
        /\ busyEvents[i].slotId = id

\* The exercises of MOOD_THEMES the model offers, with the mood of each.
Exercises == {"Box Breathing"}

moodForExercise(exercise, mood) ==
    IF exercise = Undefined THEN mood
    ELSE IF exercise = "Breathwork" THEN "Calm"
    ELSE IF exercise = "Box Breathing" THEN "Stressed"
    ELSE mood

\* Mutant of addVerdict: the conflict check is left out.
addVerdictNoConflictCheck(slot, exercise, busyEvents, clock) ==
    IF isAdded(busyEvents, slot.id) THEN "alreadyAdded"
    ELSE IF exercise = Undefined THEN "chooseExercise"
    ELSE IF slot.startDate < clock THEN "tooLate"
    ELSE IF slot.startDate < startOfToday(clock) \/ slot.endDate > endOfToday(clock)
         THEN "todayOnly"
    ELSE "ok"

\* The validations of handleAddSlot, in the order of the code: the first one
\* that fails names the alert, "ok" means the handler goes on to the write.
addVerdict(slot, exercise, busyEvents, clock) ==
    IF isAdded(busyEvents, slot.id) THEN "alreadyAdded"
    ELSE IF exercise = Undefined THEN "chooseExercise"
    ELSE IF slot.startDate < clock THEN "tooLate"
    ELSE IF slot.startDate < startOfToday(clock) \/ slot.endDate > endOfToday(clock)
         THEN "todayOnly"
    ELSE IF hasConflict(busyEvents, slot.startDate, slot.endDate) THEN "conflict"
    ELSE "ok"

\* The slot handleTimePicked builds: the day of the edited slot, the hours and
\* minutes of the picked date, seconds and milliseconds zero, same duration.
movedSlot(editingSlot, hours, minutes) ==
    LET startDate == startOfDay(editingSlot.startDate) + hours * TicksPerHour
                     + minutes * TicksPerMinute
    IN  [editingSlot EXCEPT !.startDate = startDate,
                            !.endDate = startDate + editingSlot.durationMinutes * TicksPerMinute]

\* Mutant of pickVerdict: a start in the past is accepted.
pickVerdictPastAllowed(updatedSlot, editingSlot, busyEvents, clock) ==
    IF isAdded(busyEvents, editingSlot.id) THEN "alreadyAdded"
    ELSE IF hasConflict(busyEvents, updatedSlot.startDate, updatedSlot.endDate) THEN "conflict"
    ELSE "ok"

\* The validations of handleTimePicked, in the order of the code.
pickVerdict(updatedSlot, editingSlot, busyEvents, clock) ==
    IF updatedSlot.startDate < clock THEN "tooLate"
    ELSE IF isAdded(busyEvents, editingSlot.id) THEN "alreadyAdded"
    ELSE IF hasConflict(busyEvents, updatedSlot.startDate, updatedSlot.endDate) THEN "conflict"
    ELSE "ok"

\* `prev.map(s => s.id === editingSlot.id ? updatedSlot : s)`.
replaceSlot(list, id, updatedSlot) ==
    [i \in 1..Len(list) |-> IF list[i].id = id THEN updatedSlot ELSE list[i]]

\* The latest step of the app: its kind, the number of gestures of the user
\* so far, the arguments and the verdict of the handler that ran, and for a
\* syncCalendar run that got to its end the clock it read and the slots it
\* found before it condensed them.
NoStep == [kind |-> "none", count |-> 0, slot |-> NoSlot, exercise |-> Undefined,
           event |-> 0, verdict |-> "none", index |-> 0, now |-> 0, found |-> <<>>]

\* The app is not running (the finder is called on its own).
AppIdle ==
    /\ calendar = {}
    /\ wallClock = 0
    /\ permission = "undetermined"
    /\ screen = InitialScreen
    /\ syncs = <<>>
    /\ adds = <<>>
    /\ removals = <<>>
    /\ last = NoStep

-----------------------------------------------------------------------------
(* The state machine *)

Init ==
    /\ busy \in BusyLists
    /\ config \in Configs
    /\ now \in Clocks
    /\ slots = <<>>
    /\ scanLog = EmptyLog
    /\ prevSlots = <<>>
    /\ prevBusy = <<>>
    /\ probe = <<0, 0>>
    /\ conflict = FALSE
    /\ op = "idle"
    /\ run = NoRun
    /\ AppIdle

\* A call findFreeSlots(busy, config) made when the clock reads `now`.
Find ==
    /\ op = "idle"
    /\ \E call \in {findFreeSlotsCall(busy, config, now)} :
        /\ slots' = call.slots
        /\ scanLog' = call.log
    /\ op' = "found"
    /\ UNCHANGED <<busy, config, now, prevSlots, prevBusy, probe, conflict, run, appVars>>

\* A second call at the same clock value with another config.
FindAgainConfig ==
    /\ op = "found"
    /\ \E c \in Configs :
        /\ config' = c
        /\ \E call \in {findFreeSlotsCall(busy, c, now)} :
            /\ slots' = call.slots
            /\ scanLog' = call.log
    /\ prevSlots' = slots
    /\ prevBusy' = busy
    /\ op' = "again"
    /\ UNCHANGED <<busy, now, probe, conflict, run, appVars>>

\* A second call at the same clock value with a shorter busy list (an event
\* was removed from the calendar in between).
FindAgainBusy ==
    /\ op = "found"
    /\ busy # <<>>
    /\ \E b \in {Tail(busy), SubSeq(busy, 1, Len(busy) - 1)} :
        /\ busy' = b
        /\ \E call \in {findFreeSlotsCall(b, config, now)} :
            /\ slots' = call.slots
            /\ scanLog' = call.log
    /\ prevSlots' = slots
    /\ prevBusy' = busy
    /\ op' = "again"
    /\ UNCHANGED <<config, now, probe, conflict, run, appVars>>

\* A call hasConflict(busy, start, end) for a range start < end.
CheckConflict ==
    /\ op = "idle"
    /\ \E start \in ProbeTimes, end \in ProbeTimes :
        /\ start < end
        /\ probe' = <<start, end>>
        /\ conflict' = hasConflict(busy, start, end)
    /\ op' = "checked"
    /\ UNCHANGED <<busy, config, now, slots, scanLog, prevSlots, prevBusy, run, appVars>>

\* The inputs of the worked example with one event: the window 07:00-10:00,
\* the event 09:00-09:20 (alone, or with an earlier event), a clock at or
\* before the window start.
WorkedConfigs ==
    { [days |-> d, minMinutes |-> 15, maxMinutes |-> 30,
       dayStartHour |-> 7, dayEndHour |-> e] : d \in 1..MaxDays, e \in {10, 22} }

WorkedEvents == { Event(At(0, 9, 0, 0), At(0, 9, 20, 0)), Event(At(0, 7, 30, 0), At(0, 8, 0, 0)) }

WorkedClocks == { At(0, 5, 0, 0), At(0, 6, 59, 1), At(0, 7, 0, 0) }

InitWorked ==
    /\ busy \in SeqsUpTo(WorkedEvents, MaxEvents)
    /\ config \in WorkedConfigs
    /\ now \in WorkedClocks
    /\ slots = <<>>
    /\ scanLog = EmptyLog
    /\ prevSlots = <<>>
    /\ prevBusy = <<>>
    /\ probe = <<0, 0>>
    /\ conflict = FALSE
    /\ op = "idle"
    /\ run = NoRun
    /\ AppIdle

\* The inputs of the statement-by-statement calls: configs with days >= 0.
StepConfigs ==
    { [days |-> d, minMinutes |-> mm[1], maxMinutes |-> mm[2],
       dayStartHour |-> w[1], dayEndHour |-> w[2]] :
        d \in 0..MaxDays, mm \in {<<15, 30>>, <<15, 15>>}, w \in {<<7, 22>>, <<7, 9>>} }

StepEvents ==
    { Event(At(0, 8, 0, 0), At(0, 8, 20, 0)),
      Event(At(0, 7, 30, 0), At(0, 7, 45, 1)),
      Event(At(0, 9, 30, 0), At(0, 10, 0, 0)),
      Event(At(1, 7, 0, 0), At(1, 8, 0, 0)) }

StepClocks == { At(0, 6, 0, 0), At(0, 8, 15, 1), At(0, 9, 10, 0) }

InitSteps ==
    /\ busy \in SeqsUpTo(StepEvents, MaxEvents)
    /\ config \in StepConfigs
    /\ now \in StepClocks
    /\ slots = <<>>
    /\ scanLog = EmptyLog
    /\ prevSlots = <<>>
    /\ prevBusy = <<>>
    /\ probe = <<0, 0>>
    /\ conflict = FALSE
    /\ op = "idle"
    /\ run = NoRun
    /\ AppIdle

\* Busy lists in the order fetchBusyEvents returns them in, sorted by start,
\* of the events above and an event without a length (fetchBusyEvents gives
\* an event without endDate its startDate as end) at the last tick before
\* 07:15.
IsSortedByStart(list) ==
    \A i \in 1..(Len(list) - 1) : list[i].startDate <= list[i + 1].startDate

SortedBusyLists ==
    { list \in SeqsUpTo(Events \cup {Event(At(0, 7, 14, TicksPerMinute - 1),
                                          At(0, 7, 14, TicksPerMinute - 1))}, MaxEvents) :
        IsSortedByStart(list) }

InitSorted ==
    /\ busy \in SortedBusyLists
    /\ config \in Configs
    /\ now \in Clocks
    /\ slots = <<>>
    /\ scanLog = EmptyLog
    /\ prevSlots = <<>>
    /\ prevBusy = <<>>
    /\ probe = <<0, 0>>
    /\ conflict = FALSE
    /\ op = "idle"
    /\ run = NoRun
    /\ AppIdle

\* findFreeSlots(busy, config) is called: `const slots = []; const now = new Date()`.
BeginCall ==
    /\ run.pc = "none"
    /\ run' = [NoRun EXCEPT !.pc = "day"]
    /\ UNCHANGED <<finderVars, appVars>>

EnterDay ==
    /\ run.pc = "day"
    /\ run' = stepDay(run, config, now)
    /\ UNCHANGED <<finderVars, appVars>>

VisitEvent ==
    /\ run.pc = "event"
    /\ run' = stepEvent(run, busy, now)
    /\ UNCHANGED <<finderVars, appVars>>

MoveCursor ==
    /\ run.pc = "moved"
    /\ run' = stepCursor(run, busy, now)
    /\ UNCHANGED <<finderVars, appVars>>

CarveSlot ==
    /\ run.pc = "carve"
    /\ carveGoesOn(run, config)
    /\ run' = stepCarve(run, config, now)
    /\ UNCHANGED <<finderVars, appVars>>

LeaveGap ==
    /\ run.pc = "carve"
    /\ ~carveGoesOn(run, config)
    /\ run' = stepLeaveGap(run)
    /\ UNCHANGED <<finderVars, appVars>>

WindowTail ==
    /\ run.pc = "tail"
    /\ run' = stepTail(run, config, now)
    /\ UNCHANGED <<finderVars, appVars>>

Return ==
    /\ run.pc = "return"
    /\ run' = stepReturn(run)
    /\ UNCHANGED <<finderVars, appVars>>

NextSteps ==
    BeginCall \/ EnterDay \/ VisitEvent \/ MoveCursor \/ CarveSlot \/ LeaveGap
    \/ WindowTail \/ Return

Next == Find \/ FindAgainConfig \/ FindAgainBusy \/ CheckConflict

Spec == Init /\ [][Next]_vars

\* The same calls on the inputs of the worked example.
SpecWorked == InitWorked /\ [][Next]_vars

\* The same calls on sorted busy lists.
SpecSorted == InitSorted /\ [][Next]_vars

\* One findFreeSlots call, statement by statement.  The call is synchronous
\* code on one thread: a statement that can run does run.
SpecSteps == InitSteps /\ [][NextSteps]_vars /\ WF_vars(NextSteps)

-----------------------------------------------------------------------------
(* The inputs of the app: what the calendar holds at the start, the clock,
   the permission, the times the user picks *)

MaxGestures == 2

\* A stored event of another app, and an event this app stored in an earlier
\* session, for the slot of 07:30 after the user had moved it to 12:30.
storedEvent(id, start, end, title, notes) ==
    [id |-> id, startDate |-> start, endDate |-> end, title |-> title, notes |-> notes,
     alarms |-> Undefined]

StoredEvents ==
    { storedEvent(1, At(0, 8, 0, 0), At(0, 9, 0, 0), "Standup", <<>>),
      storedEvent(2, At(0, 22, 0, 0), At(0, 23, 0, 0), "Dinner", <<textLine("Table for two")>>),
      savedEvent(3, [NoSlot EXCEPT !.startDate = At(0, 12, 30, 0), !.endDate = At(0, 13, 0, 0)],
                 [exercise |-> "Breathwork", exerciseMood |-> "Calm",
                  slotId |-> <<At(0, 7, 30, 0), 30>>, userMood |-> "Calm",
                  notes |-> NoNotes],
                 FIVE_MINUTES) }

\* Clock values: before the window, late in the morning off the minute grid,
\* at the end of the window, and with less than an hour of the day left.
AppClocks == { At(0, 6, 50, 0), At(0, 11, 10, 1), At(0, 21, 50, 0), At(0, 23, 20, 0) }

\* The times the user picks: inside the 08:00 event, a free time, and ten
\* minutes before midnight.
PickTimes == { <<8, 30>>, <<10, 0>>, <<23, 50>> }

\* The calls of addWellnessEvent by other code than HomeScreen: one slot, and
\* options with no metadata, with an exercise only, and with all four values;
\* with no alarms key, with alarms undefined, and with alarms of the caller.
ServiceSlots == { buildSlot(At(0, 9, 0, 0), 30) }

serviceOptions(meta, notes, alarms) ==
    [exercise |-> meta[1], exerciseMood |-> meta[2], slotId |-> meta[3],
     userMood |-> meta[4], notes |-> notes, alarms |-> alarms]

FullMeta == <<"Box Breathing", "Stressed", <<At(0, 9, 0, 0), 30>>, "Calm">>

\* Notes a caller passes: a text of its own, and the notes of an event the
\* app stored earlier, read back from the calendar (the event of the 07:30
\* slot of StoredEvents), which carry the metadata line of that event.
ServiceNotes ==
    { notesText(<<textLine("Bring a mat")>>),
      notesText(CHOOSE notes \in {event.notes : event \in StoredEvents} :
                    \E i \in 1..Len(notes) : notes[i].prefix = META_PREFIX) }

\* Besides: an empty exercise with and without another value, and notes of
\* the caller.
ServiceOptions ==
    { serviceOptions(meta, NoNotes, alarms) :
        meta \in { <<Undefined, Undefined, NoId, Undefined>>,
                   <<"Box Breathing", Undefined, NoId, Undefined>>,
                   FullMeta },
        alarms \in {Absent, Undefined, OTHER_ALARMS} }
    \cup { serviceOptions(meta, NoNotes, Absent) :
             meta \in { <<"", Undefined, NoId, Undefined>>, <<"", Undefined, NoId, "Calm">> } }
    \cup { serviceOptions(FullMeta, notes, Absent) : notes \in ServiceNotes }

\* The finder is not called on its own.
FinderIdle ==
    /\ busy = <<>>
    /\ config = HomeConfig
    /\ now = 0
    /\ slots = <<>>
    /\ scanLog = EmptyLog
    /\ prevSlots = <<>>
    /\ prevBusy = <<>>
    /\ probe = <<0, 0>>
    /\ conflict = FALSE
    /\ op = "idle"
    /\ run = NoRun

InitApp ==
    /\ calendar \in {stored \in SUBSET StoredEvents : Cardinality(stored) <= MaxEvents}
    /\ wallClock \in AppClocks
    /\ permission \in {"authorized", "undetermined"}
    /\ screen = InitialScreen
    /\ syncs = <<>>
    /\ adds = <<>>
    /\ removals = <<>>
    /\ last = NoStep
    /\ FinderIdle

-----------------------------------------------------------------------------
(* HomeScreen as a state machine: the handlers of the screen, and the
   asynchronous calls they wait for, one step per settled promise.  The code
   after an `await` runs in the turn of the event loop that settles the promise, so
   it belongs to the step that settles it. *)

\* The label of an internal step, and of a gesture of the user.
StepLabel(kind, index) == [NoStep EXCEPT !.kind = kind, !.count = last.count, !.index = index]
GestureLabel(kind) == [NoStep EXCEPT !.kind = kind, !.count = last.count + 1]

\* MaxGestures bounds the gestures of the user in a behaviour.
MayGesture == last.count < MaxGestures /\ Len(syncs) >= 1

\* The screen is not covered by the time picker's modal.
Uncovered == ~screen.pickerVisible

\* syncCalendar up to its first await: setLoading(true), setError(undefined),
\* and a new run that waits for ensurePermissions.
beginSync(scr) == [scr EXCEPT !.loading = TRUE, !.error = Undefined]

newSync(origin) ==
    [pc |-> "permissions", origin |-> origin, range |-> <<>>, events |-> {},
     outcome |-> "running"]

\* A run that is over keeps its origin and its outcome.
endSync(sync, outcome) ==
    [sync EXCEPT !.pc = "done", !.range = <<>>, !.events = {}, !.outcome = outcome]

\* showBanner(message, tone).
showBanner(scr, message, tone) == [scr EXCEPT !.banner = message, !.bannerTone = tone]

\* The code of the caller after `await syncCalendar()`: handleRemoveBusy
\* shows its banner; the other callers do not wait for the run.
afterSync(scr, origin) ==
    IF origin = "remove" THEN showBanner(scr, REMOVED_AND_REFRESHED, "success") ELSE scr

\* The initial sync of the mount effect.
Mount ==
    /\ syncs = <<>>
    /\ screen' = beginSync(screen)
    /\ syncs' = <<newSync("mount")>>
    /\ last' = StepLabel("mount", 1)
    /\ UNCHANGED <<calendar, wallClock, permission, adds, removals, finderVars, run>>

\* onRefresh of the list, or the app coming back to the foreground (which
\* the modal of the picker does not prevent).
Refresh ==
    /\ MayGesture
    /\ screen' = beginSync(screen)
    /\ syncs' = Append(syncs, newSync("refresh"))
    /\ last' = GestureLabel("refresh")
    /\ UNCHANGED <<calendar, wallClock, permission, adds, removals, finderVars, run>>

\* ensurePermissions resolves to true: the status is authorized, or the
\* request is granted.  fetchBusyEvents is called and computes its range.
PermissionsGranted(i) ==
    /\ syncs[i].pc = "permissions"
    /\ permission # "denied"
    /\ permission' = "authorized"
    /\ syncs' = [syncs EXCEPT ![i].pc = "fetch",
                              ![i].range = fetchRange(DAYS_TO_FETCH, wallClock)]
    /\ last' = StepLabel("permitted", i)
    /\ UNCHANGED <<calendar, wallClock, screen, adds, removals, finderVars, run>>

\* Mutant of deniedScreen: the run goes on as if permitted, loading stays set.
deniedScreenIgnored(scr) == scr

\* `if (!permitted) { setError(...); setLoading(false); return; }`
deniedScreen(scr) == [scr EXCEPT !.error = PERMISSIONS_DENIED, !.loading = FALSE]

\* ensurePermissions resolves to false: the status is not authorized and the
\* request is refused.
PermissionsDenied(i) ==
    /\ syncs[i].pc = "permissions"
    /\ permission # "authorized"
    /\ permission' = "denied"
    /\ screen' = afterSync(deniedScreen(screen), syncs[i].origin)
    /\ syncs' = [syncs EXCEPT ![i] = endSync(@, "denied")]
    /\ last' = StepLabel("denied", i)
    /\ UNCHANGED <<calendar, wallClock, adds, removals, finderVars, run>>

\* The native module reads the calendar for a pending fetchAllEvents.
FetchReads(i) ==
    /\ syncs[i].pc = "fetch"
    /\ syncs' = [syncs EXCEPT ![i].pc = "fetched",
                              ![i].events = fetchAllEvents(calendar, syncs[i].range)]
    /\ UNCHANGED <<last, calendar, wallClock, permission, screen, adds, removals, finderVars, run>>

\* fetchBusyEvents resolves; the rest of syncCalendar runs: setBusyEvents,
\* findFreeSlots, the filter and the fallback, the dayparts, setSlots, and
\* setLoading(false) of the finally block.
FetchResolves(i) ==
    /\ syncs[i].pc = "fetched"
    /\ \E busyList \in {busyEventsOf(syncs[i].events)} :
       \E result \in {suggestions(busyList, wallClock)} :
        /\ screen' = afterSync([screen EXCEPT !.busyEvents = busyList,
                                              !.slots = result.slots,
                                              !.loading = FALSE],
                               syncs[i].origin)
        /\ last' = [StepLabel("synced", i) EXCEPT !.now = wallClock, !.found = result.found]
    /\ syncs' = [syncs EXCEPT ![i] = endSync(@, "ok")]
    /\ UNCHANGED <<calendar, wallClock, permission, adds, removals, finderVars, run>>

\* fetchBusyEvents rejects: the catch block sets the error, the finally
\* block clears loading.
FetchFails(i) ==
    /\ syncs[i].pc = "fetch"
    /\ screen' = afterSync([screen EXCEPT !.error = UNABLE_TO_SYNC, !.loading = FALSE],
                           syncs[i].origin)
    /\ syncs' = [syncs EXCEPT ![i] = endSync(@, "failed")]
    /\ last' = StepLabel("syncFailed", i)
    /\ UNCHANGED <<calendar, wallClock, permission, adds, removals, finderVars, run>>

\* The options handleAddSlot passes to addWellnessEvent.
addOptions(slot, exercise, mood) ==
    [exercise |-> exercise, exerciseMood |-> moodForExercise(exercise, mood),
     slotId |-> slot.id, userMood |-> mood, notes |-> NoNotes, alarms |-> Absent]

\* The alarms of `details = {..., alarms, ...rest}`: a key of the options
\* replaces the default, whatever its value.
detailsAlarms(options) ==
    IF options.alarms = Absent THEN FIVE_MINUTES ELSE options.alarms

\* addWellnessEvent up to its first await (findCalendars).  `calls` lists the
\* alarms of the details of each saveEvent call made so far, `errors` the
\* errors of the calls that failed.
newAdd(caller, slot, options) ==
    [caller |-> caller, slot |-> slot, options |-> options, pc |-> "findCalendars",
     alarms |-> detailsAlarms(options), attempt |-> "none", calls |-> <<>>,
     errors |-> <<>>, outcome |-> "pending", value |-> 0]

\* handleAddSlot(slot, exercise): the validations, then the call of
\* addWellnessEvent; a conflict lights the slot up.
handleAddSlot(slot, exercise) ==
    LET verdict == addVerdict(slot, exercise, screen.busyEvents, wallClock)
    IN  /\ last' = [GestureLabel("add") EXCEPT !.slot = slot, !.exercise = exercise,
                                               !.verdict = verdict]
        /\ adds' = IF verdict = "ok"
                   THEN Append(adds, newAdd("handleAddSlot", slot,
                                            addOptions(slot, exercise, screen.mood)))
                   ELSE adds
        /\ screen' = IF verdict = "conflict"
                     THEN [screen EXCEPT !.conflictSlotId = slot.id]
                     ELSE screen
        /\ UNCHANGED <<calendar, wallClock, permission, syncs, removals, finderVars, run>>

\* A tap on Add of a suggestion card, with or without an exercise selected.
TapAdd ==
    /\ MayGesture
    /\ Uncovered
    /\ \E n \in 1..Len(screen.slots), exercise \in Exercises \cup {Undefined} :
        handleAddSlot(screen.slots[n], exercise)

\* addWellnessEvent(slot, options) called by other code than HomeScreen,
\* with options of its own.
ServiceAdd ==
    /\ last.count < MaxGestures
    /\ \E slot \in ServiceSlots, options \in ServiceOptions :
        /\ adds' = Append(adds, newAdd("service", slot, options))
        /\ last' = [GestureLabel("serviceAdd") EXCEPT !.slot = slot]
    /\ UNCHANGED <<calendar, wallClock, permission, screen, syncs, removals, finderVars, run>>

\* findCalendars settles: a writable calendar is found, or none is, or the
\* call fails (caught); the three differ in the calendarId of the details
\* only, which the model leaves out.  Then saveEvent is called for the first
\* time.
CalendarsSettle(k) ==
    /\ adds[k].pc = "findCalendars"
    /\ adds' = [adds EXCEPT ![k].pc = "saveEvent", ![k].attempt = "first",
                            ![k].calls = <<adds[k].alarms>>]
    /\ UNCHANGED <<last, calendar, wallClock, permission, screen, syncs, removals, finderVars, run>>

\* The id the native module gives the event of the call-th saveEvent of add k.
savedId(k, call) == 10 * k + call

\* handleAddSlot after `await addWellnessEvent(...)` has resolved:
\* setSlots([]), setConflictSlotId(null), the banner, and a new syncCalendar
\* run.  Another caller has no such code.
added(caller, scr) ==
    IF caller = "handleAddSlot"
    THEN beginSync(showBanner([scr EXCEPT !.slots = <<>>, !.conflictSlotId = NoId],
                              ADDED, "success"))
    ELSE scr

\* A pending saveEvent succeeds: the event is stored, addWellnessEvent
\* resolves with its id, and the caller goes on.
SaveSucceeds(k) ==
    /\ adds[k].pc = "saveEvent"
    /\ \E id \in {savedId(k, Len(adds[k].calls))} :
        /\ calendar' = calendar \cup {savedEvent(id, adds[k].slot, adds[k].options, adds[k].alarms)}
        /\ adds' = [adds EXCEPT ![k].pc = "done", ![k].outcome = "resolved", ![k].value = id]
    /\ screen' = added(adds[k].caller, screen)
    /\ syncs' = IF adds[k].caller = "handleAddSlot" THEN Append(syncs, newSync("add")) ELSE syncs
    /\ last' = StepLabel("saved", k)
    /\ UNCHANGED <<wallClock, permission, removals, finderVars, run>>

\* Mutant of afterSaveError: the retry keeps the alarms.
afterSaveErrorKeepAlarms(add, err) ==
    IF add.attempt = "first" /\ add.alarms # Undefined
    THEN [add EXCEPT !.attempt = "retry", !.calls = Append(@, add.alarms),
                     !.errors = Append(@, err)]
    ELSE [add EXCEPT !.pc = "done", !.outcome = "rejected", !.value = err,
                     !.errors = Append(@, err)]

\* The catch blocks of addWellnessEvent: after the first failure, with alarms
\* in the details, they are deleted and saveEvent is called once more; any
\* other failure rejects the call with the error just caught.
afterSaveError(add, err) ==
    IF add.attempt = "first" /\ add.alarms # Undefined
    THEN [add EXCEPT !.alarms = Undefined, !.attempt = "retry",
                     !.calls = Append(@, Undefined), !.errors = Append(@, err)]
    ELSE [add EXCEPT !.pc = "done", !.outcome = "rejected", !.value = err,
                     !.errors = Append(@, err)]

\* A pending saveEvent fails.  If that rejects addWellnessEvent, the catch
\* block of handleAddSlot shows the error banner.
SaveFails(k) ==
    /\ adds[k].pc = "saveEvent"
    /\ \E after \in {afterSaveError(adds[k], <<"error", Len(adds[k].calls)>>)} :
        /\ adds' = [adds EXCEPT ![k] = after]
        /\ screen' = IF after.outcome = "rejected" /\ after.caller = "handleAddSlot"
                     THEN showBanner(screen, ADD_FAILED, "error")
                     ELSE screen
    /\ last' = StepLabel("saveFailed", k)
    /\ UNCHANGED <<calendar, wallClock, permission, syncs, removals, finderVars, run>>

\* handleChangeTime(slot): the picker opens on the slot.
TapChangeTime ==
    /\ MayGesture
    /\ Uncovered
    /\ \E n \in 1..Len(screen.slots) :
        /\ screen' = [screen EXCEPT !.editingSlot = screen.slots[n], !.pickerVisible = TRUE]
        /\ last' = [StepLabel("changeTime", n) EXCEPT !.slot = screen.slots[n]]
    /\ UNCHANGED <<calendar, wallClock, permission, syncs, adds, removals, finderVars, run>>

\* A press on the backdrop of the picker's modal.
BackdropPress ==
    /\ screen.pickerVisible
    /\ screen' = [screen EXCEPT !.pickerVisible = FALSE]
    /\ UNCHANGED <<last, calendar, wallClock, permission, syncs, adds, removals, finderVars, run>>

closePicker(scr) == [scr EXCEPT !.pickerVisible = FALSE, !.editingSlot = NoSlot]

\* handleTimePicked(event, date) with a date of the given hours and minutes.
handleTimePicked(hours, minutes) ==
    LET editingSlot == screen.editingSlot
        updatedSlot == movedSlot(editingSlot, hours, minutes)
        verdict == pickVerdict(updatedSlot, editingSlot, screen.busyEvents, wallClock)
    IN  IF editingSlot = NoSlot
        THEN /\ screen' = screen
             /\ last' = [GestureLabel("picked") EXCEPT !.verdict = "noSlot"]
        ELSE /\ screen' =
                    IF verdict = "ok"
                    THEN closePicker([screen EXCEPT
                            !.slots = replaceSlot(@, editingSlot.id, updatedSlot)])
                    ELSE IF verdict = "conflict"
                    THEN closePicker([screen EXCEPT !.conflictSlotId = editingSlot.id])
                    ELSE closePicker(screen)
             /\ last' = [GestureLabel("picked") EXCEPT !.slot = updatedSlot,
                                                       !.verdict = verdict]

\* The picker reports a time, or (no date) that it was dismissed.
TimePicked ==
    /\ last.count < MaxGestures
    /\ screen.pickerVisible
    /\ \/ \E pick \in PickTimes : handleTimePicked(pick[1], pick[2])
       \/ /\ screen' = IF screen.editingSlot = NoSlot THEN screen ELSE closePicker(screen)
          /\ last' = [GestureLabel("picked") EXCEPT !.verdict = "dismissed"]
    /\ UNCHANGED <<calendar, wallClock, permission, syncs, adds, removals, finderVars, run>>

\* Mutant of mayRemove: any event may be removed.
mayRemoveAny(event) == TRUE

\* `if (!event.isAppCreated) return;`
mayRemove(event) == event.isAppCreated

\* handleRemoveBusy(event): for an app-created event, removeEvent is called.
handleRemoveBusy(event) ==
    /\ last' = [GestureLabel("remove") EXCEPT !.event = event.id,
                    !.verdict = IF event.isAppCreated THEN "app" ELSE "external"]
    /\ removals' = IF mayRemove(event)
                   THEN Append(removals, [event |-> event.id,
                                          isAppCreated |-> event.isAppCreated,
                                          pc |-> "removeEvent"])
                   ELSE removals
    /\ UNCHANGED <<calendar, wallClock, permission, screen, syncs, adds, finderVars, run>>

\* A call of handleRemoveBusy with an event of the busy list.
TapRemove ==
    /\ MayGesture
    /\ Uncovered
    /\ \E n \in 1..Len(screen.busyEvents) : handleRemoveBusy(screen.busyEvents[n])

\* removeEvent settles: the event is gone, or the call failed (caught and
\* logged).  Either way handleRemoveBusy goes on to `await syncCalendar()`.
RemoveSettles(r) ==
    /\ removals[r].pc = "removeEvent"
    /\ \E removed \in BOOLEAN :
        calendar' = IF removed
                    THEN {event \in calendar : event.id # removals[r].event}
                    ELSE calendar
    /\ removals' = [removals EXCEPT ![r].pc = "syncCalendar"]
    /\ screen' = beginSync(screen)
    /\ syncs' = Append(syncs, newSync("remove"))
    /\ last' = StepLabel("removed", r)
    /\ UNCHANGED <<wallClock, permission, adds, finderVars, run>>

\* The timer of a conflict highlight fires: setConflictSlotId(null).
ConflictReset ==
    /\ screen.conflictSlotId # NoId
    /\ screen' = [screen EXCEPT !.conflictSlotId = NoId]
    /\ UNCHANGED <<last, calendar, wallClock, permission, syncs, adds, removals, finderVars, run>>

\* The timer of the banner fires: setBanner(null).
BannerExpires ==
    /\ screen.banner # Undefined
    /\ screen' = [screen EXCEPT !.banner = Undefined]
    /\ UNCHANGED <<last, calendar, wallClock, permission, syncs, adds, removals, finderVars, run>>

\* Time passes.
Tick ==
    /\ last.count < MaxGestures
    /\ \E later \in AppClocks : later > wallClock /\ wallClock' = later
    /\ last' = GestureLabel("tick")
    /\ UNCHANGED <<calendar, permission, screen, syncs, adds, removals, finderVars, run>>

\* The steps of the syncCalendar runs.
SyncStep ==
    \/ \E i \in 1..Len(syncs) : PermissionsGranted(i)
    \/ \E i \in 1..Len(syncs) : PermissionsDenied(i)
    \/ \E i \in 1..Len(syncs) : FetchReads(i)
    \/ \E i \in 1..Len(syncs) : FetchResolves(i)
    \/ \E i \in 1..Len(syncs) : FetchFails(i)

\* No promise of the app is pending.
AtRest ==
    /\ \A i \in 1..Len(syncs) : syncs[i].pc = "done"
    /\ \A k \in 1..Len(adds) : adds[k].pc = "done"

\* The gestures of a user who waits for the app to come to rest.
AddAtRest == AtRest /\ TapAdd
ChangeTimeAtRest == AtRest /\ TapChangeTime
TickAtRest == AtRest /\ Tick

\* The app with the Add button and the time picker of the suggestion cards,
\* and a user who waits for the app to come to rest.
NextAdd ==
    \/ Mount \/ SyncStep
    \/ AddAtRest
    \/ \E k \in 1..Len(adds) : CalendarsSettle(k)
    \/ \E k \in 1..Len(adds) : SaveSucceeds(k)
    \/ \E k \in 1..Len(adds) : SaveFails(k)
    \/ ChangeTimeAtRest \/ TimePicked
    \/ ConflictReset \/ BannerExpires \/ TickAtRest

\* The app starts early in the morning or at the end of the window.
InitAdd == InitApp /\ wallClock \in {At(0, 6, 50, 0), At(0, 21, 50, 0)}

SpecAdd == InitAdd /\ [][NextAdd]_vars

\* The app with the time picker of the suggestion cards, and refreshes.
NextEdit ==
    \/ Mount \/ Refresh \/ SyncStep
    \/ TapChangeTime \/ BackdropPress \/ TimePicked
    \/ ConflictReset \/ Tick

SpecEdit == InitApp /\ [][NextEdit]_vars

\* The app with the Remove button of the busy list.
NextRemove ==
    \/ Mount \/ SyncStep
    \/ TapRemove
    \/ \E r \in 1..Len(removals) : RemoveSettles(r)
    \/ BannerExpires \/ Tick

SpecRemove == InitApp /\ [][NextRemove]_vars

\* addWellnessEvent called with options of all kinds, HomeScreen not mounted.
NextService ==
    \/ ServiceAdd
    \/ \E k \in 1..Len(adds) : CalendarsSettle(k)
    \/ \E k \in 1..Len(adds) : SaveSucceeds(k)
    \/ \E k \in 1..Len(adds) : SaveFails(k)

InitService == AppIdle /\ FinderIdle

SpecService == InitService /\ [][NextService]_vars

\* The syncCalendar runs alone: the mount, refreshes, and the clock.
NextSync == Mount \/ Refresh \/ SyncStep \/ Tick

SpecSync == InitApp /\ [][NextSync]_vars

\* The same app on a calendar that holds no event of the app at the start.
InitOthers == InitAdd /\ \A event \in calendar : ~toBusyEvent(event).isAppCreated

SpecOthers == InitOthers /\ [][NextAdd]_vars

\* The app with the Add button, and a user who does not wait: a tap may come
\* while the save of an earlier tap is pending, or before the sync that
\* follows it has set busyEvents.
NextTaps ==
    \/ Mount \/ SyncStep
    \/ TapAdd
    \/ \E k \in 1..Len(adds) : CalendarsSettle(k)
    \/ \E k \in 1..Len(adds) : SaveSucceeds(k)
    \/ \E k \in 1..Len(adds) : SaveFails(k)

SpecTaps == InitAdd /\ [][NextTaps]_vars

\* Events written by addWellnessEvent with options of all kinds, and read
\* back by the fetchBusyEvents call of the initial sync, which comes before,
\* between or after the writes; the calendar is empty at the start.
NextRoundTrip ==
    \/ ServiceAdd
    \/ \E k \in 1..Len(adds) : CalendarsSettle(k)
    \/ \E k \in 1..Len(adds) : SaveSucceeds(k)
    \/ \E k \in 1..Len(adds) : SaveFails(k)
    \/ Mount \/ SyncStep

InitRoundTrip == InitApp /\ calendar = {} /\ wallClock = At(0, 6, 50, 0)

SpecRoundTrip == InitRoundTrip /\ [][NextRoundTrip]_vars

-----------------------------------------------------------------------------
(* Claims about findFreeSlots and hasConflict *)

\* A findFreeSlots call has returned: `slots` is its result for (busy, config, now).
Scanned == op \in {"found", "again"}

\* The day offset of the local day a slot starts on.
SlotDay(slot) == slot.startDate \div TicksPerDay

SlotIndexes == 1..Len(slots)

\* C1: no slot returned by findFreeSlots overlaps any event of the input
\* list, whatever the order of the list, the day a running event started on,
\* or the seconds of the clock.
C1_NoSlotOverlapsBusy ==
    Scanned =>
        \A i \in SlotIndexes, j \in 1..Len(busy) :
            ~(busy[j].startDate < slots[i].endDate /\ slots[i].startDate < busy[j].endDate)

\* C2: every slot returned by findFreeSlots lies inside the scan window
\* dayStartHour:00 .. dayEndHour:00 of the day it starts on.
C2_SlotsInsideWindow ==
    Scanned =>
        \A i \in SlotIndexes :
            /\ At(SlotDay(slots[i]), config.dayStartHour, 0, 0) <= slots[i].startDate
            /\ slots[i].endDate <= At(SlotDay(slots[i]), config.dayEndHour, 0, 0)

\* C3: every slot returned has durationMinutes equal to config.minMinutes or
\* config.maxMinutes, never less than minMinutes, and ends exactly
\* durationMinutes minutes after it starts.
C3_DurationIsMinOrMax ==
    Scanned =>
        \A i \in SlotIndexes :
            /\ slots[i].durationMinutes \in {config.minMinutes, config.maxMinutes}
            /\ slots[i].durationMinutes >= config.minMinutes
            /\ slots[i].endDate - slots[i].startDate = slots[i].durationMinutes * TicksPerMinute

\* C3's case: a call with the clock off the minute grid returned a slot of
\* each of two different durations.
C3_Witness ==
    /\ Scanned
    /\ now % TicksPerMinute # 0
    /\ config.minMinutes < config.maxMinutes
    /\ \E i, j \in SlotIndexes :
        /\ slots[i].durationMinutes = config.maxMinutes
        /\ slots[j].durationMinutes = config.minMinutes

\* C4: the returned list never has more than 10 slots, and carving stops at
\* the tenth: no gap of any day is carved past a list length of 10.
C4_AtMostTenSlots ==
    /\ Len(slots) <= 10
    /\ \A g \in 1..Len(scanLog.gaps) : scanLog.gaps[g].hi <= 10

\* C4's case: a scan of two days reached the cap on its second day, in a gap
\* with room for more slots.
C4_Witness ==
    /\ Scanned
    /\ Len(slots) = 10
    /\ SlotDay(slots[1]) = 0
    /\ SlotDay(slots[10]) = 1
    /\ \E g \in 1..Len(scanLog.gaps) :
        /\ scanLog.gaps[g].hi = 10
        /\ scanLog.gaps[g].to - slots[10].endDate >= config.maxMinutes * TicksPerMinute

\* C5: every slot starts at or after now; the scan of day offset 0 starts at
\* max(now, windowStart) and no slot of that day starts earlier; the scan of
\* every later day offset starts exactly at that day's windowStart.
C5_NoPastTime ==
    Scanned =>
        /\ \A i \in SlotIndexes :
            /\ slots[i].startDate >= now
            /\ SlotDay(slots[i]) = 0 =>
                   slots[i].startDate >= Max(now, At(0, config.dayStartHour, 0, 0))
            /\ slots[i].startDate >= At(SlotDay(slots[i]), config.dayStartHour, 0, 0)
        /\ \A d \in 1..Len(scanLog.days) :
            /\ scanLog.days[d].day = d - 1
            /\ scanLog.days[d].cursor =
                   IF d = 1 THEN Max(now, At(0, config.dayStartHour, 0, 0))
                   ELSE At(d - 1, config.dayStartHour, 0, 0)

\* C5's case: the clock is inside the window of day 0, the first slot starts
\* exactly at the clock value, and a slot of the next day starts at that
\* day's windowStart.
C5_Witness ==
    /\ Scanned
    /\ now > At(0, config.dayStartHour, 0, 0)
    /\ Len(slots) > 0
    /\ slots[1].startDate = now
    /\ \E i \in SlotIndexes : slots[i].startDate = At(1, config.dayStartHour, 0, 0)

\* C6: hasConflict(busy, start, end) is true iff some event b of busy has
\* b.start < end and start < b.end; a range touching an event at an endpoint
\* is no conflict, and an empty list never conflicts.
C6_ConflictIffOverlap ==
    op = "checked" =>
        /\ conflict <=> \E j \in 1..Len(busy) :
                            busy[j].startDate < probe[2] /\ probe[1] < busy[j].endDate
        /\ (\A j \in 1..Len(busy) :
                probe[1] >= busy[j].endDate \/ probe[2] <= busy[j].startDate) => ~conflict
        /\ busy = <<>> => ~conflict

\* C6's case: the range starts exactly where the only event ends (and, in
\* another state, overlaps it) and hasConflict returned false.
C6_Witness ==
    /\ op = "checked"
    /\ Len(busy) = 1
    /\ probe[1] = busy[1].endDate
    /\ probe[1] < probe[2]
    /\ ~conflict

\* C8: the id of a slot is a function of (start, durationMinutes) only: two
\* slots of two calls (with different busy lists or configs) or of one call
\* that agree on start and durationMinutes agree on id.
C8_IdFromStartAndDuration ==
    op = "again" =>
        \A a \in {slots[i] : i \in SlotIndexes} \cup {prevSlots[i] : i \in 1..Len(prevSlots)},
           b \in {prevSlots[i] : i \in 1..Len(prevSlots)} :
            (a.startDate = b.startDate /\ a.durationMinutes = b.durationMinutes) => a.id = b.id

\* C8's case: two calls with different busy lists returned different lists
\* that share a slot (same start, same duration) at different positions.
C8_Witness ==
    /\ op = "again"
    /\ busy # prevBusy
    /\ \E i \in SlotIndexes, j \in 1..Len(prevSlots) :
        /\ i # j
        /\ slots[i].startDate = prevSlots[j].startDate
        /\ slots[i].durationMinutes = prevSlots[j].durationMinutes

\* C9: greedy longest-first carving: a slot has duration maxMinutes exactly
\* when the time from its start to the end of its gap is >= maxMinutes, and
\* minMinutes exactly when that time is >= minMinutes and < maxMinutes; so in
\* one gap no min-duration slot precedes a max-duration slot.
C9_GreedyLongestFirst ==
    Scanned =>
        \A g \in 1..Len(scanLog.gaps) :
            LET gap == scanLog.gaps[g] IN
            /\ \A i \in (gap.lo + 1)..gap.hi :
                LET left == gap.to - slots[i].startDate IN
                /\ left >= config.minMinutes * TicksPerMinute
                /\ slots[i].durationMinutes =
                       IF left >= config.maxMinutes * TicksPerMinute
                       THEN config.maxMinutes ELSE config.minMinutes
            /\ \A i, j \in (gap.lo + 1)..gap.hi :
                (i < j /\ config.minMinutes < config.maxMinutes) =>
                    ~(slots[i].durationMinutes = config.minMinutes
                      /\ slots[j].durationMinutes = config.maxMinutes)

\* The config and clock of the example of C10.
ExampleConfig ==
    [days |-> 1, minMinutes |-> 15, maxMinutes |-> 30, dayStartHour |-> 7, dayEndHour |-> 22]

\* C10: with busy = [], the example config and now = today 07:00,
\* findFreeSlots returns ten back-to-back 30-minute slots, 07:00-07:30 first,
\* 07:30-08:00 second, 11:30-12:00 last.
C10_EmptyDayExample ==
    (op = "found" /\ busy = <<>> /\ config = ExampleConfig /\ now = At(0, 7, 0, 0)) =>
        /\ Len(slots) = 10
        /\ \A i \in 1..10 :
            /\ slots[i].startDate = At(0, 7, 30 * (i - 1), 0)
            /\ slots[i].endDate = At(0, 7, 30 * i, 0)
            /\ slots[i].durationMinutes = 30
        /\ slots[1].startDate = At(0, 7, 0, 0) /\ slots[1].endDate = At(0, 7, 30, 0)
        /\ slots[2].startDate = At(0, 7, 30, 0) /\ slots[2].endDate = At(0, 8, 0, 0)
        /\ slots[10].startDate = At(0, 11, 30, 0) /\ slots[10].endDate = At(0, 12, 0, 0)

\* C10's case: the example call has been made and has returned slots.
C10_Witness ==
    /\ op = "found" /\ busy = <<>> /\ config = ExampleConfig /\ now = At(0, 7, 0, 0)
    /\ Len(slots) > 0

\* The inputs of the example of C11.
C11_Inputs ==
    /\ busy = <<Event(At(0, 9, 0, 0), At(0, 9, 20, 0))>>
    /\ config = [days |-> 1, minMinutes |-> 15, maxMinutes |-> 30,
                 dayStartHour |-> 7, dayEndHour |-> 10]
    /\ now <= At(0, 7, 0, 0)

\* C11: with busy = [09:00-09:20], the window 07:00-10:00, min 15 / max 30,
\* one day and now <= 07:00, the first four slots are 07:00-07:30,
\* 07:30-08:00, 08:00-08:30, 08:30-09:00, the remainder 09:20-10:00 is carved
\* on its own (from 09:20), and no slot overlaps 09:00-09:20.
C11_OneEventExample ==
    (op = "found" /\ C11_Inputs) =>
        /\ Len(slots) >= 4
        /\ \A i \in 1..4 :
            /\ slots[i].startDate = At(0, 7, 30 * (i - 1), 0)
            /\ slots[i].endDate = At(0, 7, 30 * i, 0)
        /\ slots[4].endDate = At(0, 9, 0, 0)
        /\ Len(slots) = 5
        /\ slots[5].startDate = At(0, 9, 20, 0)
        /\ slots[5].endDate <= At(0, 10, 0, 0)
        /\ \A i \in SlotIndexes :
            ~(At(0, 9, 0, 0) < slots[i].endDate /\ slots[i].startDate < At(0, 9, 20, 0))

\* C11's case: the example call was made with the clock before the window
\* start and returned slots on both sides of the event.
C11_Witness ==
    /\ op = "found" /\ C11_Inputs
    /\ now < At(0, 7, 0, 0)
    /\ \E i, j \in SlotIndexes :
        slots[i].endDate <= At(0, 9, 0, 0) /\ slots[j].startDate >= At(0, 9, 20, 0)

\* The instant up to which gap g of the scan is covered by its slots.
CoveredTo(g) ==
    IF scanLog.gaps[g].hi > scanLog.gaps[g].lo
    THEN slots[scanLog.gaps[g].hi].endDate
    ELSE scanLog.gaps[g].from

\* C18: in each gap that findFreeSlots carves, the slots are back-to-back
\* from exactly the gap's start, and when carving stops for another reason
\* than the 10-slot cap, the uncovered tail is shorter than minMinutes.
C18_BackToBackInGap ==
    Scanned =>
        \A g \in 1..Len(scanLog.gaps) :
            LET gap == scanLog.gaps[g] IN
            /\ gap.hi > gap.lo => slots[gap.lo + 1].startDate = gap.from
            /\ \A i \in (gap.lo + 1)..(gap.hi - 1) : slots[i + 1].startDate = slots[i].endDate
            /\ gap.hi < 10 => gap.to - CoveredTo(g) < config.minMinutes * TicksPerMinute

\* C18's case: the cap was not reached, and a gap before an event got
\* several slots and was left with a tail.
C18_Witness ==
    /\ Scanned
    /\ Len(slots) < 10
    /\ \E g \in 1..Len(scanLog.gaps) :
        /\ \E j \in 1..Len(busy) : busy[j].startDate = scanLog.gaps[g].to
        /\ scanLog.gaps[g].hi > scanLog.gaps[g].lo + 1
        /\ scanLog.gaps[g].to - CoveredTo(g) > 0

\* C12: findFreeSlots is total over well-formed input (days >= 0,
\* 1 <= minMinutes <= maxMinutes, dayStartHour < dayEndHour): every iteration
\* of a carving loop leaves less time to carve, the call reaches its return
\* statement, and what it returns is the list of findFreeSlots.
C12_CallTerminates ==
    /\ [][(run.pc = "carve" /\ run'.pc = "carve") =>
            diffMinutes(run'.gapStart, run'.gapEnd) < diffMinutes(run.gapStart, run.gapEnd)]_vars
    /\ [](run.pc = "done" => run.slots = findFreeSlots(busy, config, now))
    /\ <>(run.pc = "done")

\* C12's case: a call over more than one day, with events, that carved slots
\* in several gaps, has returned.
C12_Witness ==
    /\ run.pc = "done"
    /\ config.days > 1
    /\ Len(busy) > 1
    /\ Len(run.slots) > 3
    /\ \E i \in 1..(Len(run.slots) - 1) : run.slots[i + 1].startDate > run.slots[i].endDate

-----------------------------------------------------------------------------
(* Claims about HomeScreen and addWellnessEvent *)

\* A syncCalendar run has just got to its end with a list for setSlots.
Synced == last.kind = "synced"

Dayparts == {"morning", "afternoon", "evening"}

\* The hours a daypart spans.
DaypartHours(daypart) ==
    IF daypart = "morning" THEN 0..(MORNING_END - 1)
    ELSE IF daypart = "afternoon" THEN MORNING_END..(AFTERNOON_END - 1)
    ELSE AFTERNOON_END..(HoursPerDay - 1)

\* The places in a list of the slots that start in a daypart.
InDaypart(list, daypart) ==
    {n \in 1..Len(list) : getHours(list[n].startDate) \in DaypartHours(daypart)}

C16_DeniedRunStops ==
    /\ [][\A i \in 1..Len(syncs) :
            (Len(syncs') = Len(syncs) /\ syncs[i].outcome = "running"
             /\ syncs'[i].outcome = "denied") =>
                /\ syncs[i].pc = "permissions"
                /\ syncs'[i].pc = "done"
                /\ screen'.error = PERMISSIONS_DENIED
                /\ screen'.loading = FALSE
                /\ screen'.busyEvents = screen.busyEvents
                /\ screen'.slots = screen.slots]_vars
    /\ [][\A i \in 1..Len(syncs) :
            syncs[i].outcome = "denied" => syncs'[i] = syncs[i]]_vars

\* A run was refused the permission.
C16_Witness ==
    /\ last.kind = "denied"
    /\ syncs[last.index].outcome = "denied"
    /\ screen.error = PERMISSIONS_DENIED

\* C19: right after a syncCalendar run that got to its end, every slot of the
\* slots state, the fallback slot too, starts at least 15 minutes after the
\* clock value the run read and ends no later than 23:59:59.999 of the day of
\* that clock value.
C19_SlotsAfterBufferToday ==
    Synced =>
        \A n \in 1..Len(screen.slots) :
            /\ screen.slots[n].startDate >= last.now + MIN_FUTURE_BUFFER_MINUTES * TicksPerMinute
            /\ screen.slots[n].endDate < startOfDay(last.now) + TicksPerDay

\* A run ended with the fallback slot, and with less than 30 minutes for it.
C19_Witness ==
    /\ Synced
    /\ Len(screen.slots) = 1
    /\ screen.slots[1].id = fallbackId(screen.slots[1].startDate)
    /\ screen.slots[1].durationMinutes < MAX_DURATION_MINUTES

\* The step just taken is a call of the handler, the (count+1)-th gesture.
HandlerRan(kind) == last'.kind = kind /\ last'.count = last.count + 1

\* C14: handleAddSlot calls addWellnessEvent only when, at the tap, no
\* app-created event of busyEvents carries the slot's id as slotId, an
\* exercise is selected, the slot does not start before now, it lies within
\* today, and hasConflict(busyEvents, start, end) is false; when one of the
\* five fails, there is no call and no calendar write, and busyEvents and
\* slots are left as they were.  No other step starts a call.
C14_AddOnlyWhenValid ==
    [][LET slot == last'.slot
           allPass ==
               /\ ~\E n \in 1..Len(screen.busyEvents) :
                      /\ screen.busyEvents[n].isAppCreated
                      /\ screen.busyEvents[n].slotId = slot.id
               /\ last'.exercise # Undefined
               /\ slot.startDate >= wallClock
               /\ slot.startDate >= startOfDay(wallClock)
               /\ slot.endDate < startOfDay(wallClock) + TicksPerDay
               /\ ~hasConflict(screen.busyEvents, slot.startDate, slot.endDate)
       IN  /\ HandlerRan("add") =>
                /\ adds' # adds => allPass /\ adds' = Append(adds, adds'[Len(adds')])
                                   /\ adds'[Len(adds')].slot = slot
                /\ ~allPass =>
                       /\ adds' = adds
                       /\ calendar' = calendar
                       /\ screen'.busyEvents = screen.busyEvents
                       /\ screen'.slots = screen.slots
           /\ Len(adds') > Len(adds) => HandlerRan("add")]_vars

\* A tap was turned down for a conflict, with the four other validations passed.
C14_Witness ==
    /\ last.kind = "add"
    /\ last.verdict = "conflict"
    /\ hasConflict(screen.busyEvents, last.slot.startDate, last.slot.endDate)
    /\ last.exercise # Undefined
    /\ adds = <<>>

\* C15: handleRemoveBusy called with an event that is not app-created returns
\* at once: no removeEvent call, no syncCalendar run, no banner, nothing of
\* the screen or the calendar changes; so no removeEvent call is ever made
\* for such an event.
C15_ExternalEventsStay ==
    /\ [][(/\ HandlerRan("remove")
           /\ \E n \in 1..Len(screen.busyEvents) :
                /\ screen.busyEvents[n].id = last'.event
                /\ ~screen.busyEvents[n].isAppCreated) =>
                    /\ removals' = removals
                    /\ syncs' = syncs
                    /\ calendar' = calendar
                    /\ screen' = screen]_vars
    /\ [](\A r \in 1..Len(removals) : removals[r].isAppCreated)

\* The handler has been called with an event of another app.
C15_Witness ==
    /\ last.kind = "remove"
    /\ \E n \in 1..Len(screen.busyEvents) :
        screen.busyEvents[n].id = last.event /\ ~screen.busyEvents[n].isAppCreated
    /\ removals = <<>>

\* C17: an addWellnessEvent call makes at most two saveEvent calls, the first
\* with the 5-minute alarm, the second only after the first has failed and
\* with alarms removed; it resolves with the id of the first call that
\* succeeds, and rejects only when both calls have failed, with the error of
\* the second.
C17_SaveAtMostTwice ==
    \A k \in 1..Len(adds) :
        LET add == adds[k]
        IN  /\ Len(add.calls) <= 2
            /\ Len(add.calls) >= 1 => add.calls[1] = FIVE_MINUTES
            /\ Len(add.calls) = 2 => Len(add.errors) >= 1 /\ add.calls[2] = Undefined
            /\ add.outcome = "resolved" =>
                   /\ Len(add.calls) = Len(add.errors) + 1
                   /\ add.value = savedId(k, Len(add.errors) + 1)
            /\ add.outcome = "rejected" =>
                   /\ Len(add.calls) = 2
                   /\ Len(add.errors) = 2
                   /\ add.value = add.errors[2]

\* C17, amended: an addWellnessEvent call makes at most two saveEvent calls,
\* the first with the alarms of its details (those of the options when they
\* have the key, else the 5-minute alarm), the second only after the first
\* has failed with alarms in the details, and without alarms; it resolves
\* with the id of the first call that succeeds, and rejects with the error of
\* the last call it made: after two failed calls, or after one failed call
\* whose details had no alarms.
C17_SaveAtMostTwiceAmended ==
    \A k \in 1..Len(adds) :
        LET add == adds[k]
            first == IF add.options.alarms = Absent THEN FIVE_MINUTES ELSE add.options.alarms
        IN  /\ Len(add.calls) <= 2
            /\ Len(add.calls) >= 1 => add.calls[1] = first
            /\ Len(add.calls) = 2 =>
                   /\ Len(add.errors) >= 1
                   /\ first # Undefined
                   /\ add.calls[2] = Undefined
            /\ add.outcome = "resolved" =>
                   /\ Len(add.calls) = Len(add.errors) + 1
                   /\ add.value = savedId(k, Len(add.errors) + 1)
                   /\ \E event \in calendar :
                          event.id = add.value /\ event.alarms = add.calls[Len(add.calls)]
            /\ add.outcome = "rejected" =>
                   /\ Len(add.errors) = Len(add.calls)
                   /\ add.value = add.errors[Len(add.errors)]
                   /\ Len(add.calls) = 2 \/ first = Undefined

\* A call resolved on its second saveEvent, and another was rejected after
\* one call, its options having alarms undefined.
C17_Witness ==
    /\ \E k \in 1..Len(adds) :
        /\ adds[k].outcome = "resolved"
        /\ Len(adds[k].calls) = 2
        /\ \E event \in calendar : event.id = adds[k].value /\ event.alarms = Undefined
    /\ \E k \in 1..Len(adds) :
        /\ adds[k].outcome = "rejected"
        /\ Len(adds[k].calls) = 1

\* C20: handleTimePicked, run with an editing slot set, ends with the picker
\* hidden and editingSlot null; it changes the slots state only when the
\* picked start is not in the past, the slot is not already added and the new
\* range has no conflict with busyEvents, and then it changes at most one
\* slot, the one with the id of the editing slot, to the new start and end.
C20_TimeChangeOnlyWhenValid ==
    [][(HandlerRan("picked") /\ screen.editingSlot # NoSlot) =>
        LET editing == screen.editingSlot
            newStart == last'.slot.startDate
            newEnd == newStart + editing.durationMinutes * TicksPerMinute
            changed == {n \in 1..Len(screen.slots) : screen'.slots[n] # screen.slots[n]}
        IN  /\ screen'.pickerVisible = FALSE
            /\ screen'.editingSlot = NoSlot
            /\ Len(screen'.slots) = Len(screen.slots)
            /\ Cardinality(changed) <= 1
            /\ changed # {} =>
                   /\ last'.verdict = "ok"
                   /\ newStart >= wallClock
                   /\ ~\E m \in 1..Len(screen.busyEvents) :
                          /\ screen.busyEvents[m].isAppCreated
                          /\ screen.busyEvents[m].slotId = editing.id
                   /\ ~hasConflict(screen.busyEvents, newStart, newEnd)
            /\ \A n \in changed :
                   /\ screen.slots[n].id = editing.id
                   /\ screen'.slots[n] = [editing EXCEPT !.startDate = newStart,
                                                         !.endDate = newEnd]]_vars

\* A slot of the slots state has been moved to a picked time.
C20_Witness ==
    /\ last.kind = "picked"
    /\ last.verdict = "ok"
    /\ \E n \in 1..Len(screen.slots) :
        /\ screen.slots[n] = last.slot
        /\ screen.slots[n].id # <<screen.slots[n].startDate, screen.slots[n].durationMinutes>>
    /\ ~screen.pickerVisible

\* The metadata of the options of an addWellnessEvent call has a non-empty value.
HasMetadata(options) ==
    \/ truthy(options.exercise) \/ truthy(options.exerciseMood)
    \/ options.slotId # NoId \/ truthy(options.userMood)

\* fetchBusyEvents reported the event with the metadata of the options.
SameMetadata(event, options) ==
    /\ event.isAppCreated
    /\ event.exercise = options.exercise
    /\ event.exerciseMood = options.exerciseMood
    /\ event.slotId = options.slotId
    /\ event.userMood = options.userMood

\* The events of busyEvents paired with the addWellnessEvent calls that wrote
\* them, for the calls whose options satisfy `scope`.
RoundTrips(scope(_)) ==
    \A n \in 1..Len(screen.busyEvents), k \in 1..Len(adds) :
        (/\ adds[k].outcome = "resolved"
         /\ adds[k].value = screen.busyEvents[n].id
         /\ HasMetadata(adds[k].options)
         /\ scope(adds[k].options)) =>
            SameMetadata(screen.busyEvents[n], adds[k].options)

\* C21: an event written by addWellnessEvent with options exercise,
\* exerciseMood, slotId and userMood, one of them at least non-empty, and
\* returned by the calendar as it was stored, is reported by fetchBusyEvents
\* with isAppCreated true and the same four values.
C21_MetadataRoundTrip == RoundTrips(LAMBDA options : TRUE)

\* The same for the calls whose notes option has no line that starts with
\* META_PREFIX, those of handleAddSlot among them: this holds.
C21_RoundTripOwnNotes ==
    RoundTrips(LAMBDA options :
        \A i \in 1..Len(options.notes.lines) : options.notes.lines[i].prefix # META_PREFIX)

\* An event written with all four values and an empty one has been read back.
C21_Witness ==
    \E n \in 1..Len(screen.busyEvents), k \in 1..Len(adds) :
        /\ adds[k].outcome = "resolved"
        /\ adds[k].value = screen.busyEvents[n].id
        /\ adds[k].options.exercise = ""
        /\ screen.busyEvents[n].userMood = "Calm"

\* C22: for a busy list sorted by start, of events with start <= end, the
\* slots findFreeSlots returns are in strictly increasing order of start and
\* each slot starts at or after the end of the one before, so that no two of
\* them share a start or an id.
C22_SlotsOrderedAndDisjoint ==
    Scanned =>
        /\ \A n \in 1..(Len(slots) - 1) :
               /\ slots[n].startDate < slots[n + 1].startDate
               /\ slots[n].endDate <= slots[n + 1].startDate
        /\ \A n \in 1..Len(slots), m \in 1..Len(slots) :
               n # m => slots[n].startDate # slots[m].startDate /\ slots[n].id # slots[m].id

\* The order alone, and the starts and ids that differ: this holds.
C22_StartsIncrease ==
    Scanned =>
        \A n \in 1..Len(slots), m \in 1..Len(slots) :
            n < m => slots[n].startDate < slots[m].startDate /\ slots[n].id # slots[m].id

\* C23: right after a syncCalendar run that got to its end, no slot of the
\* slots state, the fallback slot included, overlaps an event of the
\* busyEvents state the run has set.
C23_NoSuggestionOverlapsBusy ==
    Synced =>
        \A n \in 1..Len(screen.slots), m \in 1..Len(screen.busyEvents) :
            ~rangesOverlap(screen.slots[n].startDate, screen.slots[n].endDate,
                           screen.busyEvents[m].startDate, screen.busyEvents[m].endDate)

\* C24: whatever the order of the Add taps and of the saves they wait for,
\* the calendar never holds two app-created events whose time ranges overlap.
C24_NoOverlappingAppEvents ==
    \A a \in calendar, b \in calendar :
        (a.id # b.id /\ toBusyEvent(a).isAppCreated /\ toBusyEvent(b).isAppCreated) =>
            ~rangesOverlap(a.startDate, a.endDate, b.startDate, b.endDate)

\* C25: when syncCalendar runs overlap, the result of an older run never
\* overwrites the result of a newer one: once the run that started last has
\* ended, the end of a run that started before it leaves busyEvents, slots
\* and error as they are, so that after both they hold the result of the run
\* that started last.
C25_NewestRunWins ==
    [][\A i \in 1..(Len(syncs) - 1) :
        (/\ syncs[i].pc # "done"
         /\ syncs'[i].pc = "done"
         /\ syncs[Len(syncs)].pc = "done") =>
            /\ screen'.busyEvents = screen.busyEvents
            /\ screen'.slots = screen.slots
            /\ screen'.error = screen.error]_vars

\* A syncCalendar run has started and has not ended.
SyncRunning == \E i \in 1..Len(syncs) : syncs[i].pc # "done"

\* C26: in every state of HomeScreen, loading is true while a syncCalendar
\* run that has started has not ended, and false once every run that has
\* started has ended.
C26_LoadingWhileSyncing ==
    /\ SyncRunning => screen.loading
    /\ (Len(syncs) >= 1 /\ ~SyncRunning) => ~screen.loading

\* The second half alone: this holds.
C26_NotLoadingAtRest == (Len(syncs) >= 1 /\ ~SyncRunning) => ~screen.loading

\* The daypart holds a free gap of MIN_DURATION_MINUTES: a range of that
\* length that lies in the daypart and in the scan window of the clock's day,
\* starts MIN_FUTURE_BUFFER_MINUTES after the clock or later, and overlaps no
\* busy event.
HasFreeGap(daypart, busyEvents, clock) ==
    LET length == MIN_DURATION_MINUTES * TicksPerMinute
        windowStart == setHour(clock, DAY_START_HOUR)
        windowEnd == setHour(clock, DAY_END_HOUR)
    IN  \E t \in windowStart..(windowEnd - length) :
            /\ t >= clock + MIN_FUTURE_BUFFER_MINUTES * TicksPerMinute
            /\ getHours(t) \in DaypartHours(daypart)
            /\ getHours(t + length - 1) \in DaypartHours(daypart)
            /\ ~hasConflict(busyEvents, t, t + length)

\* C27: right after a syncCalendar run that got to its end, every daypart of
\* today that holds a free gap of at least the minimum duration, inside the
\* scan window and at least 15 minutes after the clock value the run read,
\* has a slot of the slots state that starts in it.
C27_DaypartCoverage ==
    Synced =>
        \A daypart \in Dayparts :
            HasFreeGap(daypart, screen.busyEvents, last.now) =>
                InDaypart(screen.slots, daypart) # {}

\* C28: in every state reached by syncs, time changes and adds, a slot of
\* the slots state that is marked as added (an app-created event of
\* busyEvents carries the slot's id as slotId) starts when that event starts.
C28_AddedMarkerAtEventStart ==
    \A n \in 1..Len(screen.slots), m \in 1..Len(screen.busyEvents) :
        (/\ screen.busyEvents[m].isAppCreated
         /\ screen.busyEvents[m].slotId # NoId
         /\ screen.busyEvents[m].slotId = screen.slots[n].id) =>
            screen.busyEvents[m].startDate = screen.slots[n].startDate

====
